---------------------------- MODULE Spec2Model ----------------------------
(***************************************************************************)
(* A model of the chat relay server of src/src/server.rs: the join-command *)
(* parser, the channel registry (a mutex-guarded map from channel name to  *)
(* (roster, broadcast sender)), the tokio broadcast group behind every     *)
(* channel, the listener and the per-connection handler `handle_client`.   *)
(*                                                                         *)
(* A string is a sequence of characters; a character is a one-character    *)
(* TLA+ string, or the token EAcute for a character whose UTF-8 encoding   *)
(* takes two bytes (Rust's str::len counts bytes).                         *)
(***************************************************************************)
EXTENDS Integers, Sequences, FiniteSets, TLC

\* ------------------------------------------------------------------ bounds

\* Number of connections that clients open in the runs of Spec.
MaxConn == 2

\* Number of items (lines or read errors) that the handlers read from their
\* transports after the join command, all handlers together, in Spec.
MaxChat == 1

\* The same two bounds and the number of clients that close their transport
\* in the runs of SpecRace, which has one connection more and fewer inputs.
RaceConn == 3
RaceChat == 1
RaceClose == 1

\* Server::MAX_MESSAGES (1000 in the source), scaled down so that a slow
\* subscriber can fall behind by more than the capacity.
MAX_MESSAGES == 2

\* The longest term the parser keeps: `term.len() <= 20`.
MaxTermLen == 20

Conn == 1..(IF RaceConn > MaxConn THEN RaceConn ELSE MaxConn)

\* ------------------------------------------------------------- characters

EAcute == "U+00E9"
Tab == "\t"
Space == " "

\* char::len_utf8
Utf8Len(c) == IF c = EAcute THEN 2 ELSE 1

\* char::is_whitespace
IsWhitespace(c) == c \in {Space, Tab}

RECURSIVE StrLen(_)
\* str::len: the length in bytes
StrLen(s) == IF s = <<>> THEN 0 ELSE Utf8Len(Head(s)) + StrLen(Tail(s))

\* str::chars().count(): the length in characters
CharCount(s) == Len(s)

\* term.chars().any(|c| c.is_whitespace())
HasWhitespace(s) == \E k \in 1..Len(s) : IsWhitespace(s[k])

RECURSIVE SplitFrom(_, _, _)
SplitFrom(s, k, cur) ==
    IF k > Len(s) THEN <<cur>>
    ELSE IF s[k] = Space THEN <<cur>> \o SplitFrom(s, k + 1, <<>>)
    ELSE SplitFrom(s, k + 1, Append(cur, s[k]))

\* str::split(' '): the terms between single spaces, empty terms included
Split(s) == SplitFrom(s, 1, <<>>)

RECURSIVE Concat(_)
\* The line made of the terms with one space between them
Concat(terms) ==
    IF terms = <<>> THEN <<>>
    ELSE IF Len(terms) = 1 THEN terms[1]
    ELSE terms[1] \o <<Space>> \o Concat(Tail(terms))

RECURSIVE Filter(_)
\* .filter(|term| term.len() <= 20).filter(|term| no whitespace)
Filter(terms) ==
    IF terms = <<>> THEN <<>>
    ELSE IF StrLen(Head(terms)) <= MaxTermLen /\ ~HasWhitespace(Head(terms))
         THEN <<Head(terms)>> \o Filter(Tail(terms))
         ELSE Filter(Tail(terms))

JOIN == <<"J", "O", "I", "N">>
ERROR == <<"E", "R", "R", "O", "R">>

None == [ok |-> FALSE]

\* The parser with the empty terms discarded too, as if runs of spaces were
\* one separator and the line were trimmed
parse_join_skip_empty(join_cmd) ==
    LET cmd_terms == SelectSeq(Filter(Split(join_cmd)), LAMBDA t : t # <<>>)
    IN  IF Len(cmd_terms) # 3 \/ cmd_terms[1] # JOIN THEN None
        ELSE [ok |-> TRUE, chan_name |-> cmd_terms[2], user_name |-> cmd_terms[3]]

\* Server::parse_join_command without the check for a fourth term
parse_join_no_canary(join_cmd) ==
    LET cmd_terms == Filter(Split(join_cmd))
    IN  IF Len(cmd_terms) < 3 \/ cmd_terms[1] # JOIN THEN None
        ELSE [ok |-> TRUE, chan_name |-> cmd_terms[2], user_name |-> cmd_terms[3]]

\* Server::parse_join_command returning the user name as the channel name and
\* the channel name as the user name
parse_join_swapped(join_cmd) ==
    LET cmd_terms == Filter(Split(join_cmd))
    IN  IF Len(cmd_terms) # 3 \/ cmd_terms[1] # JOIN THEN None
        ELSE [ok |-> TRUE, chan_name |-> cmd_terms[3], user_name |-> cmd_terms[2]]

\* Server::parse_join_command
parse_join_command(join_cmd) ==
    LET cmd_terms == Filter(Split(join_cmd))
    IN  IF Len(cmd_terms) < 1 \/ cmd_terms[1] # JOIN THEN None
        ELSE IF Len(cmd_terms) < 2 THEN None
        ELSE IF Len(cmd_terms) < 3 THEN None
        ELSE IF Len(cmd_terms) > 3 THEN None
        ELSE [ok |-> TRUE, chan_name |-> cmd_terms[2], user_name |-> cmd_terms[3]]

\* format!("{} has joined", user_name)
join_msg(user_name) ==
    user_name \o <<" ", "h", "a", "s", " ", "j", "o", "i", "n", "e", "d">>

\* format!("{} has left", user_name)
leave_msg(user_name) ==
    user_name \o <<" ", "h", "a", "s", " ", "l", "e", "f", "t">>

\* The line as read, published without the name of its sender
chat_msg_raw(user_name, msg) == msg

\* format!("{}: {}", user_name, msg)
chat_msg(user_name, msg) == user_name \o <<":", " ">> \o msg

\* ------------------------------------------------------------------ inputs

chanA == <<"a">>
chanB == <<"b">>
userX == <<"x">>
userY == <<"y">>
\* a name of 21 one-byte characters
Long21 == [k \in 1..(MaxTermLen + 1) |-> "n"]
\* a name of exactly 20 one-byte characters
Full20 == [k \in 1..MaxTermLen |-> "m"]
\* a name of 11 two-byte characters: 11 characters, 22 bytes
Wide11 == [k \in 1..((MaxTermLen \div 2) + 1) |-> EAcute]
\* a name with a tab inside
TabName == <<"a", Tab, "b">>

\* The first lines a client may send. A term that is empty stands for two
\* spaces in a row, or for a space at an end of the line.
FirstLines ==
    { Concat(<<JOIN, chanA, userX>>),
      Concat(<<JOIN, chanA, userY>>),
      Concat(<<JOIN, chanB, userX>>),
      Concat(<<JOIN, Full20, userX>>),
      Concat(<<JOIN, Wide11, userX>>),
      Concat(<<<<"W">>, chanA, userX>>),
      Concat(<<JOIN, chanA>>),
      Concat(<<JOIN, chanA, userX, userY>>),
      Concat(<<JOIN, Long21, userX>>),
      Concat(<<JOIN, chanA, Long21>>),
      Concat(<<JOIN, TabName, userX>>),
      Concat(<<JOIN, Long21, chanA, userX>>),
      Concat(<<Long21, JOIN, chanA, userY>>),
      Concat(<<JOIN, chanA, <<>>>>),
      Concat(<<JOIN, <<>>, userX>>),
      Concat(<<JOIN, <<>>, chanA, userX>>),
      Concat(<<<<>>, JOIN, chanA, userX>>),
      Concat(<<<<"j", "o", "i", "n">>, chanA, userX>>) }

\* The first lines of the runs of Spec: two users, two channels and a line
\* that is no join command.
MainLines ==
    { Concat(<<JOIN, chanA, userX>>),
      Concat(<<JOIN, chanA, userY>>),
      Concat(<<JOIN, chanB, userX>>),
      Concat(<<<<"W">>, chanA, userX>>) }

\* The first lines of the runs of SpecRace.
RaceLines ==
    { Concat(<<JOIN, chanA, userX>>),
      Concat(<<JOIN, chanA, userY>>) }

userZ == <<"z">>

\* The first lines of the runs of SpecJoin: every connection joins the same
\* channel under a name of its own, or the last one under a name in use.
JoinLines ==
    [i \in Conn |->
        IF i = 1 THEN {Concat(<<JOIN, chanA, userX>>)}
        ELSE IF i = 2 THEN {Concat(<<JOIN, chanA, userY>>)}
        ELSE {Concat(<<JOIN, chanA, userZ>>), Concat(<<JOIN, chanA, userY>>)}]

\* The lines a client may send once joined.
ChatLines == { <<"h", "i">>, Concat(<<JOIN, chanB, userY>>) }

\* What one read of the transport yields besides the end of the stream:
\* Some(Ok(line)) or Some(Err(e)).
ReadErr == [err |-> TRUE]
Ok(line) == [err |-> FALSE, line |-> line]

\* What a read yields in the Joined state in the runs of Spec and SpecParse
ChatItems == {ReadErr} \cup {Ok(l) : l \in ChatLines}

\* and in the runs of SpecRace
RaceItems == {Ok(<<"h", "i">>)}

\* ------------------------------------------------------------------- state

VARIABLES
    env,          \* what the clients of this run do at most: [conns, lines,
                  \* says, chat, closes]; it never changes
    accepted,     \* number of connections the listener has accepted
    channels,     \* the registry: channel name -> [users, tx]
    lock,         \* the set of handlers holding the registry mutex (0 or 1)
    groups,       \* the broadcast groups ever created, by id (1..Len)
    closed,       \* closed[i]: the client has closed its end of the transport
    pc,           \* pc[i]: the position of handler i in handle_client
    join_cmd,     \* join_cmd[i]: the first line read
    chan_name,    \* chan_name[i]
    user_name,    \* user_name[i]
    channel_tx,   \* channel_tx[i]: the group handler i publishes to, 0 if none
    channel_rx,   \* channel_rx[i]: [live, next], the handler's subscription
    out,          \* out[i]: the lines written to the transport of i
    nread,        \* items read from the transports of joined connections
    result        \* result[i]: how handle_client returned, "Running" before

\* what a handler keeps of its join command
names == <<join_cmd, chan_name, user_name>>

vars == <<env, accepted, channels, lock, groups, closed, pc, names,
          channel_tx, channel_rx, out, nread, result>>

\* broadcast::channel(Self::MAX_MESSAGES): the number of messages a group
\* retains for its subscribers
Capacity == MAX_MESSAGES

\* broadcast::channel(Self::MAX_MESSAGES).0 : the sender of a new group; the
\* receiver half is dropped at once, so the group starts with no subscriber.
NewGroup == [log |-> <<>>, rx_cnt |-> 0, tx_cnt |-> 1]

\* Sender::receiver_count
receiver_count(g) == groups[g].rx_cnt

\* The connections that are in the Joined state under channel name c
JoinedOn(c) == {j \in Conn : pc[j] = "Joined" /\ chan_name[j] = c}

\* A publish that puts the message in front of those the group retains
PublishFront(g, i, kind, msg) ==
    [groups EXCEPT ![g].log =
        <<[msg |-> msg, from |-> i, kind |-> kind,
           chan |-> chan_name[i], joined |-> JoinedOn(chan_name[i])]>> \o @]

\* Sender::send on group g by handler i: the groups after the publish. Each
\* log entry also records who published it, of which kind it is and which
\* connections were in the Joined state under the publisher's channel name.
Publish(g, i, kind, msg) ==
    [groups EXCEPT ![g].log =
        Append(@, [msg |-> msg, from |-> i, kind |-> kind,
                   chan |-> chan_name[i], joined |-> JoinedOn(chan_name[i])])]

\* A sender handle of group g is dropped
DropTx(gs, g) == [gs EXCEPT ![g].tx_cnt = @ - 1]

\* A receiver of group g is dropped
DropRx(gs, g) == [gs EXCEPT ![g].rx_cnt = @ - 1]

NoRx == [live |-> FALSE, next |-> 0]

\* The outcomes of chat.send on the transport of i: a write to a transport
\* whose peer is still there succeeds; once the peer has closed, a write may
\* succeed or fail.
WriteOutcomes(i) == IF closed[i] THEN {TRUE, FALSE} ELSE {TRUE}

InitWith(e) ==
    /\ env = e
    /\ accepted = 0
    /\ channels = <<>>
    /\ lock = {}
    /\ groups = <<>>
    /\ closed = [i \in Conn |-> FALSE]
    /\ pc = [i \in Conn |-> "Idle"]
    /\ join_cmd = [i \in Conn |-> <<>>]
    /\ chan_name = [i \in Conn |-> <<>>]
    /\ user_name = [i \in Conn |-> <<>>]
    /\ channel_tx = [i \in Conn |-> 0]
    /\ channel_rx = [i \in Conn |-> NoRx]
    /\ out = [i \in Conn |-> <<>>]
    /\ nread = 0
    /\ result = [i \in Conn |-> "Running"]

Init ==
    InitWith([conns |-> MaxConn, lines |-> [i \in Conn |-> MainLines], says |-> ChatItems,
              chat |-> MaxChat, closes |-> MaxConn])

\* Every first line, no line after it.
InitParse ==
    InitWith([conns |-> MaxConn, lines |-> [i \in Conn |-> FirstLines], says |-> ChatItems,
              chat |-> 0, closes |-> MaxConn])

\* Three connections, three users of one channel, no line after the join.
InitJoin ==
    InitWith([conns |-> RaceConn, lines |-> JoinLines, says |-> RaceItems,
              chat |-> 0, closes |-> RaceClose])

InitRace ==
    InitWith([conns |-> RaceConn, lines |-> [i \in Conn |-> RaceLines], says |-> RaceItems,
              chat |-> RaceChat, closes |-> RaceClose])

\* ---------------------------------------------------------------- registry

\* HashMap::contains_key
HasChannel(c) == c \in DOMAIN channels

\* channels.insert(chan_name, (Vec::new(), new sender)) in place of
\* entry(..).or_insert(..): an entry that exists is replaced, and dropped.
insert_always(c) ==
    [map |-> (c :> [users |-> <<>>, tx |-> Len(groups) + 1]) @@ channels,
     gs  |-> Append(IF HasChannel(c) THEN DropTx(groups, channels[c].tx) ELSE groups,
                    NewGroup)]

\* entry(..).or_insert(..) with one sender, the first one created, cloned for
\* every new channel
or_insert_shared(c) ==
    IF HasChannel(c) \/ groups = <<>>
    THEN [map |-> IF HasChannel(c) THEN channels
                  ELSE (c :> [users |-> <<>>, tx |-> 1]) @@ channels,
          gs  |-> IF HasChannel(c) THEN groups ELSE <<NewGroup>>]
    ELSE [map |-> (c :> [users |-> <<>>, tx |-> 1]) @@ channels,
          gs  |-> [groups EXCEPT ![1].tx_cnt = @ + 1]]

\* channels.entry(chan_name).or_insert((Vec::new(), new sender)): the map and
\* the groups after the call; a missing entry gets an empty roster and the
\* sender of a new group.
or_insert(c) ==
    IF HasChannel(c) THEN [map |-> channels, gs |-> groups]
    ELSE [map |-> (c :> [users |-> <<>>, tx |-> Len(groups) + 1]) @@ channels,
          gs  |-> Append(groups, NewGroup)]

\* users.contains(&user_name) with the comparison inverted
ContainsInverted(users, u) == \E k \in 1..Len(users) : users[k] # u

\* users.contains(&user_name)
Contains(users, u) == \E k \in 1..Len(users) : users[k] = u

\* HashMap::remove
RemoveChannel(c) == [n \in DOMAIN channels \ {c} |-> channels[n]]

\* What the handler drops when handle_client returns: its subscription, if it
\* has one, and its clone of the sender, if it has one.
DropLocals(gs, i) ==
    LET g == channel_tx[i]
        a == IF channel_rx[i].live THEN DropRx(gs, g) ELSE gs
    IN  IF g = 0 THEN gs ELSE DropTx(a, g)

\* handle_client of i returns r
Return(i, r) ==
    /\ pc' = [pc EXCEPT ![i] = "Done"]
    /\ result' = [result EXCEPT ![i] = r]
    /\ channel_rx' = [channel_rx EXCEPT ![i] = NoRx]
    /\ channel_tx' = [channel_tx EXCEPT ![i] = 0]

\* ----------------------------------------------------------------- actions

\* Server::listen: accept the next connection and spawn its handler.
Accept ==
    /\ accepted < env.conns
    /\ accepted' = accepted + 1
    /\ pc' = [pc EXCEPT ![accepted + 1] = "AwaitJoin"]
    /\ UNCHANGED <<env, channels, lock, groups, closed, names, channel_tx,
                   channel_rx, out, nread, result>>

\* The client of connection i closes its end of the transport.
Close(i) ==
    /\ pc[i] # "Idle"
    /\ ~closed[i]
    /\ Cardinality({j \in Conn : closed[j]}) < env.closes
    /\ closed' = [closed EXCEPT ![i] = TRUE]
    /\ UNCHANGED <<env, accepted, channels, lock, groups, pc, names,
                   channel_tx, channel_rx, out, nread, result>>

\* handle_client, lines 151-165: read the join command and validate it.
ReadJoin(i) ==
    /\ pc[i] = "AwaitJoin"
    /\ IF closed[i]
       THEN /\ Return(i, "NoJoin")
            /\ UNCHANGED <<join_cmd, chan_name, user_name, out>>
       ELSE \E item \in {ReadErr} \cup {Ok(l) : l \in env.lines[i]} :
              IF item.err
              THEN /\ Return(i, "NoJoin")
                   /\ UNCHANGED <<join_cmd, chan_name, user_name, out>>
              ELSE LET parsed == parse_join_command(item.line)
                   IN  /\ join_cmd' = [join_cmd EXCEPT ![i] = item.line]
                       /\ IF parsed.ok
                          THEN /\ chan_name' = [chan_name EXCEPT ![i] = parsed.chan_name]
                               /\ user_name' = [user_name EXCEPT ![i] = parsed.user_name]
                               /\ pc' = [pc EXCEPT ![i] = "Lock"]
                               /\ UNCHANGED <<out, result, channel_rx, channel_tx>>
                          ELSE /\ \E ok \in WriteOutcomes(i) :
                                    out' = [out EXCEPT ![i] =
                                              IF ok THEN Append(@, ERROR) ELSE @]
                               /\ Return(i, "InvalidJoin")
                               /\ UNCHANGED <<chan_name, user_name>>
    /\ UNCHANGED <<env, accepted, channels, lock, groups, closed, nread>>

\* The locked block with the sender of the entry handed out as it is: the
\* handler uses the registry's own handle, no clone is made
JoinLockedNoClone(i) ==
    /\ pc[i] = "Lock"
    /\ lock = {}
    /\ LET c == chan_name[i]
           u == user_name[i]
           map == or_insert(c).map
           gs == or_insert(c).gs
       IN  IF Contains(map[c].users, u)
           THEN /\ channels' = map
                /\ groups' = gs
                /\ lock' = {i}
                /\ pc' = [pc EXCEPT ![i] = "Conflict"]
                /\ UNCHANGED channel_tx
           ELSE /\ channels' = [map EXCEPT ![c].users = Append(@, u)]
                /\ groups' = gs
                /\ channel_tx' = [channel_tx EXCEPT ![i] = map[c].tx]
                /\ lock' = {}
                /\ pc' = [pc EXCEPT ![i] = "Subscribe"]
    /\ UNCHANGED <<env, accepted, closed, names, channel_rx, out, nread,
                   result>>

\* handle_client, lines 172-188: under the registry lock, fetch or create the
\* channel and add the user to its roster unless the name is taken. On the
\* conflict path the lock stays held for the write of ERROR.
JoinLocked(i) ==
    /\ pc[i] = "Lock"
    /\ lock = {}
    /\ LET c == chan_name[i]
           u == user_name[i]
           map == or_insert(c).map
           gs == or_insert(c).gs
       IN  IF Contains(map[c].users, u)
           THEN /\ channels' = map
                /\ groups' = gs
                /\ lock' = {i}
                /\ pc' = [pc EXCEPT ![i] = "Conflict"]
                /\ UNCHANGED channel_tx
           ELSE /\ channels' = [map EXCEPT ![c].users = Append(@, u)]
                /\ groups' = [gs EXCEPT ![map[c].tx].tx_cnt = @ + 1]
                /\ channel_tx' = [channel_tx EXCEPT ![i] = map[c].tx]
                /\ lock' = {}
                /\ pc' = [pc EXCEPT ![i] = "Subscribe"]
    /\ UNCHANGED <<env, accepted, closed, names, channel_rx, out, nread,
                   result>>

\* The conflict path running into the departure: the refused handler writes
\* ERROR and announces that its user has left to the group of the channel
ConflictSendThenLeave(i) ==
    /\ pc[i] = "Conflict"
    /\ \E ok \in WriteOutcomes(i) :
         out' = [out EXCEPT ![i] = IF ok THEN Append(@, ERROR) ELSE @]
    /\ lock' = {}
    /\ groups' = Publish(channels[chan_name[i]].tx, i, "leave",
                         leave_msg(user_name[i]))
    /\ Return(i, "UserAlreadyInChannel")
    /\ UNCHANGED <<env, accepted, channels, closed, names, nread>>

\* handle_client, lines 182-183 and 188: write ERROR while the lock is held,
\* release the lock and return UserAlreadyInChannel.
ConflictSend(i) ==
    /\ pc[i] = "Conflict"
    /\ \E ok \in WriteOutcomes(i) :
         out' = [out EXCEPT ![i] = IF ok THEN Append(@, ERROR) ELSE @]
    /\ lock' = {}
    /\ Return(i, "UserAlreadyInChannel")
    /\ UNCHANGED <<env, accepted, channels, groups, closed, names, nread>>

\* The handler goes on to its announcement without a subscription
SubscribeSkipped(i) ==
    /\ pc[i] = "Subscribe"
    /\ pc' = [pc EXCEPT ![i] = "Announce"]
    /\ UNCHANGED <<env, accepted, channels, lock, groups, closed, names,
                   channel_tx, channel_rx, out, nread, result>>

\* handle_client, line 192: channel_tx.subscribe()
Subscribe(i) ==
    /\ pc[i] = "Subscribe"
    /\ LET g == channel_tx[i]
       IN  /\ channel_rx' = [channel_rx EXCEPT
                               ![i] = [live |-> TRUE, next |-> Len(groups[g].log)]]
           /\ groups' = [groups EXCEPT ![g].rx_cnt = @ + 1]
    /\ pc' = [pc EXCEPT ![i] = "Announce"]
    /\ UNCHANGED <<env, accepted, channels, lock, closed, names, channel_tx,
                   out, nread, result>>

\* handle_client, lines 195-198: publish "<user> has joined"; a publish to a
\* group without subscriber fails.
Announce(i) ==
    /\ pc[i] = "Announce"
    /\ LET g == channel_tx[i]
       IN  IF receiver_count(g) = 0
           THEN /\ groups' = DropLocals(groups, i)
                /\ Return(i, "BroadcastMessage")
           ELSE /\ groups' = Publish(g, i, "join", join_msg(user_name[i]))
                /\ pc' = [pc EXCEPT ![i] = "Joined"]
                /\ UNCHANGED <<channel_rx, channel_tx, result>>
    /\ UNCHANGED <<env, accepted, channels, lock, closed, names, out, nread>>

\* The poll of the subscription with a loss that is reported but not skipped:
\* ERROR is written and the subscription stays where it was.
RecvForwardNoResume(i) ==
    /\ pc[i] = "Joined"
    /\ LET g == channel_tx[i]
           tail == Len(groups[g].log)
           next == channel_rx[i].next
           lagged == tail - next > Capacity
       IN  /\ tail > next \/ groups[g].tx_cnt = 0
           /\ IF tail = next
              THEN /\ groups' = DropLocals(groups, i)
                   /\ Return(i, "Panic")
                   /\ UNCHANGED out
              ELSE \E ok \in WriteOutcomes(i) :
                     IF ok
                     THEN /\ out' = [out EXCEPT ![i] =
                                       Append(@, IF lagged THEN ERROR
                                                 ELSE groups[g].log[next + 1].msg)]
                          /\ channel_rx' = [channel_rx EXCEPT ![i].next =
                                              IF lagged THEN next ELSE next + 1]
                          /\ UNCHANGED <<groups, pc, result, channel_tx>>
                     ELSE /\ groups' = DropLocals(groups, i)
                          /\ Return(i, "SendMessage")
                          /\ UNCHANGED out
    /\ UNCHANGED <<env, accepted, channels, lock, closed, names, nread>>

\* handle_client, lines 204-218: the subscription yields a message, a loss
\* notification or (no sender left) Closed; a message is forwarded verbatim,
\* a loss is reported as ERROR. A failed write ends the handler at once.
RecvForward(i) ==
    /\ pc[i] = "Joined"
    /\ LET g == channel_tx[i]
           tail == Len(groups[g].log)
           next == channel_rx[i].next
           lagged == tail - next > Capacity
       IN  /\ tail > next \/ groups[g].tx_cnt = 0
           /\ IF tail = next
              THEN \* RecvError::Closed: unreachable!()
                   /\ groups' = DropLocals(groups, i)
                   /\ Return(i, "Panic")
                   /\ UNCHANGED out
              ELSE \E ok \in WriteOutcomes(i) :
                     IF ok
                     THEN /\ out' = [out EXCEPT ![i] =
                                       Append(@, IF lagged THEN ERROR
                                                 ELSE groups[g].log[next + 1].msg)]
                          /\ channel_rx' = [channel_rx EXCEPT ![i].next =
                                              IF lagged THEN tail - Capacity
                                              ELSE next + 1]
                          /\ UNCHANGED <<groups, pc, result, channel_tx>>
                     ELSE /\ groups' = DropLocals(groups, i)
                          /\ Return(i, "SendMessage")
                          /\ UNCHANGED out
    /\ UNCHANGED <<env, accepted, channels, lock, closed, names, nread>>

\* The loop body with a line that parses as a join command taken as one: the
\* handler adopts the channel and the user it names and goes back to the
\* registry.
ReadLineRejoin(i) ==
    /\ pc[i] = "Joined"
    /\ IF closed[i]
       THEN /\ pc' = [pc EXCEPT ![i] = "Leave"]
            /\ UNCHANGED <<groups, nread, result, channel_rx, channel_tx, names>>
       ELSE /\ nread < env.chat
            /\ nread' = nread + 1
            /\ \E item \in env.says :
                 IF item.err
                 THEN UNCHANGED <<groups, pc, result, channel_rx, channel_tx, names>>
                 ELSE IF parse_join_command(item.line) # None
                 THEN /\ chan_name' = [chan_name EXCEPT ![i] =
                                         parse_join_command(item.line).chan_name]
                      /\ user_name' = [user_name EXCEPT ![i] =
                                         parse_join_command(item.line).user_name]
                      /\ groups' = DropLocals(groups, i)
                      /\ channel_rx' = [channel_rx EXCEPT ![i] = NoRx]
                      /\ channel_tx' = [channel_tx EXCEPT ![i] = 0]
                      /\ pc' = [pc EXCEPT ![i] = "Lock"]
                      /\ UNCHANGED <<join_cmd, result>>
                 ELSE /\ groups' = Publish(channel_tx[i], i, "chat",
                                           chat_msg(user_name[i], item.line))
                      /\ UNCHANGED <<pc, result, channel_rx, channel_tx, names>>
    /\ UNCHANGED <<env, accepted, channels, lock, closed, out>>

\* handle_client, lines 220-236: the transport yields a line, which is
\* published as "<user>: <line>", a read error, which is logged, or the end
\* of the stream, which breaks the loop.
ReadLine(i) ==
    /\ pc[i] = "Joined"
    /\ IF closed[i]
       THEN /\ pc' = [pc EXCEPT ![i] = "Leave"]
            /\ UNCHANGED <<groups, nread, result, channel_rx, channel_tx>>
       ELSE /\ nread < env.chat
            /\ nread' = nread + 1
            /\ \E item \in env.says :
                 IF item.err
                 THEN UNCHANGED <<groups, pc, result, channel_rx, channel_tx>>
                 ELSE IF receiver_count(channel_tx[i]) = 0
                 THEN /\ groups' = DropLocals(groups, i)
                      /\ Return(i, "BroadcastMessage")
                 ELSE /\ groups' = Publish(channel_tx[i], i, "chat",
                                           chat_msg(user_name[i], item.line))
                      /\ UNCHANGED <<pc, result, channel_rx, channel_tx>>
    /\ UNCHANGED <<env, accepted, channels, lock, closed, names, out>>

\* handle_client, lines 242-245: publish "<user> has left".
LeaveAnnounce(i) ==
    /\ pc[i] = "Leave"
    /\ IF receiver_count(channel_tx[i]) = 0
       THEN /\ groups' = DropLocals(groups, i)
            /\ Return(i, "BroadcastMessage")
       ELSE /\ groups' = Publish(channel_tx[i], i, "leave", leave_msg(user_name[i]))
            /\ pc' = [pc EXCEPT ![i] = "DropRx"]
            /\ UNCHANGED <<result, channel_rx, channel_tx>>
    /\ UNCHANGED <<env, accepted, channels, lock, closed, names, out, nread>>

\* handle_client, line 247: drop(channel_rx)
DropSubscription(i) ==
    /\ pc[i] = "DropRx"
    /\ groups' = DropRx(groups, channel_tx[i])
    /\ channel_rx' = [channel_rx EXCEPT ![i] = NoRx]
    /\ pc' = [pc EXCEPT ![i] = "CheckEmpty"]
    /\ UNCHANGED <<env, accepted, channels, lock, closed, names, channel_tx,
                   out, nread, result>>

\* handle_client, line 250: channel_tx.receiver_count() == 0, read without
\* the registry lock.
CheckEmpty(i) ==
    /\ pc[i] = "CheckEmpty"
    /\ IF receiver_count(channel_tx[i]) = 0
       THEN /\ pc' = [pc EXCEPT ![i] = "Remove"]
            /\ UNCHANGED <<groups, result, channel_rx, channel_tx>>
       ELSE /\ groups' = DropLocals(groups, i)
            /\ Return(i, "Ok")
    /\ UNCHANGED <<env, accepted, channels, lock, closed, names, out, nread>>

\* handle_client, lines 252-255: channels.lock().await.remove(chan_name),
\* whatever entry the name has by now, then return Ok.
Remove(i) ==
    /\ pc[i] = "Remove"
    /\ lock = {}
    /\ LET c == chan_name[i]
           gs == IF HasChannel(c) THEN DropTx(groups, channels[c].tx) ELSE groups
       IN  /\ channels' = RemoveChannel(c)
           /\ groups' = DropLocals(gs, i)
    /\ Return(i, "Ok")
    /\ UNCHANGED <<env, accepted, lock, closed, names, out, nread>>

Next ==
    \/ Accept
    \/ \E i \in Conn :
         \/ Close(i)
         \/ ReadJoin(i)
         \/ JoinLocked(i)
         \/ ConflictSend(i)
         \/ Subscribe(i)
         \/ Announce(i)
         \/ RecvForward(i)
         \/ ReadLine(i)
         \/ LeaveAnnounce(i)
         \/ DropSubscription(i)
         \/ CheckEmpty(i)
         \/ Remove(i)

Spec == Init /\ [][Next]_vars

SpecParse == InitParse /\ [][Next]_vars

SpecJoin == InitJoin /\ [][Next]_vars

SpecRace == InitRace /\ [][Next]_vars

\* The loop of a joined handler polls its subscription on every turn, and the
\* transport yields finitely many lines: a message waiting in the subscription
\* is eventually taken.
SpecLive == Init /\ [][Next]_vars /\ \A i \in Conn : WF_vars(RecvForward(i))

\* The steps of the handler of connection i
HandlerStep(i) ==
    \/ ReadJoin(i) \/ JoinLocked(i) \/ ConflictSend(i) \/ Subscribe(i)
    \/ Announce(i) \/ RecvForward(i) \/ ReadLine(i) \/ LeaveAnnounce(i)
    \/ DropSubscription(i) \/ CheckEmpty(i) \/ Remove(i)

\* The runtime polls every spawned handler that can make progress, and the
\* registry mutex serves its waiters in turn: a handler that can take a step
\* eventually takes one.
SpecFair == Init /\ [][Next]_vars /\ \A i \in Conn : WF_vars(HandlerStep(i))



\* ------------------------------------------------------------- properties

GroupIds == 1..Len(groups)

\* Line m was written to the transport of i
InOut(i, m) == \E k \in 1..Len(out[i]) : out[i][k] = m

\* How many times line m was written to the transport of i
CountOut(i, m) == Cardinality({k \in 1..Len(out[i]) : out[i][k] = m})

\* The entry at position k of the log of group g is still to be read by the
\* subscription of handler r
Pending(r, g, k) ==
    /\ pc[r] = "Joined"
    /\ channel_tx[r] = g
    /\ channel_rx[r].next < k

\* C1: a line sent by a connection in the Joined state on channel c reaches
\* every other connection that was in the Joined state under the same channel
\* name when it was published: as long as the receiver's transport is open,
\* the line has been written to it, is still to be read by the receiver's
\* subscription, or the receiver was told of a loss by an ERROR line.
C1_ChatReachesEveryMember ==
    \A g \in GroupIds : \A k \in 1..Len(groups[g].log) :
        LET e == groups[g].log[k]
        IN  e.kind = "chat" =>
              \A r \in e.joined \ {e.from} :
                  \/ closed[r]
                  \/ InOut(r, e.msg)
                  \/ Pending(r, g, k)
                  \/ InOut(r, ERROR)

\* The usernames in the roster of channel c
Roster(c) == {channels[c].users[k] : k \in 1..Len(channels[c].users)}

\* The username of i is in the roster of the channel it asks for
NameTaken(i) == HasChannel(chan_name[i]) /\ user_name[i] \in Roster(chan_name[i])

\* Handler i has published nothing to any group
NeverPublished(i) ==
    \A g \in GroupIds : \A k \in 1..Len(groups[g].log) : groups[g].log[k].from # i

\* No username is twice in a roster
NoDuplicate(users) ==
    \A k1, k2 \in 1..Len(users) : users[k1] = users[k2] => k1 = k2

\* C2: a handler that takes the registry lock for a JOIN whose username is in
\* the roster of the channel changes neither the registry nor any group, then
\* writes one ERROR line (if the write fails, which it can only once the
\* client has closed the transport, none) and returns UserAlreadyInChannel; it
\* never subscribes, never publishes, and no roster ever holds a name twice.
C2_ConflictRejected ==
    /\ [](/\ \A c \in DOMAIN channels : NoDuplicate(channels[c].users)
          /\ \A i \in Conn :
               /\ pc[i] = "Conflict" => out[i] = <<>> /\ NeverPublished(i)
               /\ result[i] = "UserAlreadyInChannel" =>
                    /\ out[i] = <<ERROR>> \/ (closed[i] /\ out[i] = <<>>)
                    /\ NeverPublished(i))
    /\ [][\A i \in Conn :
            /\ (pc[i] = "Lock" /\ pc'[i] # "Lock" /\ NameTaken(i)) =>
                 /\ pc'[i] = "Conflict"
                 /\ channels' = channels
                 /\ groups' = groups
            /\ (pc[i] = "Conflict" /\ pc'[i] # "Conflict") =>
                 /\ pc'[i] = "Done"
                 /\ result'[i] = "UserAlreadyInChannel"
                 /\ channels' = channels
                 /\ groups' = groups]_vars

\* C2 witness: a connection was rejected with one ERROR line while another
\* connection is joined to the same channel under the same username.
C2_Witness ==
    \E i, j \in Conn :
        /\ i # j
        /\ result[i] = "UserAlreadyInChannel"
        /\ out[i] = <<ERROR>>
        /\ pc[j] = "Joined"
        /\ chan_name[j] = chan_name[i]
        /\ user_name[j] = user_name[i]

\* C3: the entry of a channel leaves the registry only in a step after which
\* its group has no subscriber (never while a subscriber remains), and an
\* entry that enters the registry has, once its creator is inserted, a roster
\* of that one username.
C3_RemovedWhenLastSubscriberLeaves ==
    [][/\ \A c \in DOMAIN channels :
            c \notin DOMAIN channels' => groups'[channels[c].tx].rx_cnt = 0
       /\ \A c \in DOMAIN channels' :
            c \notin DOMAIN channels => Len(channels'[c].users) = 1]_vars

\* Handler i has read a first line
ReadFirst(i) == pc[i] \notin {"Idle", "AwaitJoin"} /\ result[i] # "NoJoin"

\* The line is `JOIN <channel> <user>` with single spaces, both names of at
\* most 20 characters and without whitespace
WellFormedJoin(line) ==
    LET t == Split(line)
    IN  /\ Len(t) = 3
        /\ t[1] = JOIN
        /\ \A k \in 2..3 : CharCount(t[k]) <= MaxTermLen /\ ~HasWhitespace(t[k])

\* The same with both names of at most 20 bytes in UTF-8
WellFormedJoinBytes(line) ==
    LET t == Split(line)
    IN  /\ Len(t) = 3
        /\ t[1] = JOIN
        /\ \A k \in 2..3 : StrLen(t[k]) <= MaxTermLen /\ ~HasWhitespace(t[k])

\* The announcement `<user> has joined` as the clients see it
HasJoinedLine(u) == u \o <<" ", "h", "a", "s", " ", "j", "o", "i", "n", "e", "d">>

Published(i, kind) ==
    Cardinality({<<g, k>> \in GroupIds \X (1..(3 * Cardinality(Conn) + MaxChat + RaceChat)) :
                    /\ k <= Len(groups[g].log)
                    /\ groups[g].log[k].from = i
                    /\ groups[g].log[k].kind = kind})

\* C5: a handler whose transport closed while it was in the Joined state (it
\* read a line from it in that state) and that has ended has published
\* `<user> has left` exactly once, and the announcement reaches every member
\* that was joined to the channel then: written once to its transport, still
\* unread in its subscription, or reported lost with ERROR, unless that
\* member's transport is closed too.
C5_LeftAnnouncedOnce ==
    /\ \A i \in Conn :
         (pc[i] = "Done" /\ Published(i, "chat") >= 1) => Published(i, "leave") = 1
    /\ \A g \in GroupIds : \A k \in 1..Len(groups[g].log) :
         LET e == groups[g].log[k]
         IN  e.kind = "leave" =>
               \A r \in e.joined :
                   \/ closed[r]
                   \/ CountOut(r, e.msg) = 1
                   \/ Pending(r, g, k)
                   \/ InOut(r, ERROR)

\* The terms of the line that the parser's filter keeps
Survivors(line) ==
    SelectSeq(Split(line),
              LAMBDA t : StrLen(t) <= MaxTermLen /\ \A k \in 1..Len(t) : ~IsWhitespace(t[k]))

\* The line is malformed as C6 lists it: the first term is not JOIN, there are
\* fewer or more than two arguments, or an argument is longer than 20
\* characters or contains whitespace
Malformed(line) ==
    LET t == Split(line)
    IN  \/ t[1] # JOIN
        \/ Len(t) < 3
        \/ Len(t) > 3
        \/ \E k \in 2..Len(t) : CharCount(t[k]) > MaxTermLen \/ HasWhitespace(t[k])

\* Handler i was turned away with one ERROR line (none if the write failed,
\* which it can only once the client has closed the transport) and InvalidJoin
TurnedAway(i) ==
    /\ pc[i] = "Done"
    /\ result[i] = "InvalidJoin"
    /\ out[i] = <<ERROR>> \/ (closed[i] /\ out[i] = <<>>)
    /\ NeverPublished(i)

EntriesOf(g, p, kind) ==
    {k \in 1..Len(groups[g].log) :
        groups[g].log[k].from = p /\ groups[g].log[k].kind = kind}

\* C7: when connections join one channel with distinct usernames and none of
\* them departs, every member that was joined when a peer announced itself has
\* the peer's `<user> has joined` written to its transport exactly once, or
\* has it still unread in its subscription, or was told of a loss with ERROR;
\* the peer published one announcement, to the group the member listens to,
\* and no announcement is ever written twice.
C7_EachJoinAnnouncedOnce ==
    (\A c \in Conn : ~closed[c]) =>
        \A m, p \in Conn :
            (m # p /\ pc[m] = "Joined" /\ pc[p] = "Joined"
                   /\ chan_name[m] = chan_name[p]) =>
                LET g == channel_tx[m]
                    line == HasJoinedLine(user_name[p])
                IN /\ channel_tx[p] = g
                   /\ user_name[m] # user_name[p]
                   /\ Cardinality(EntriesOf(g, p, "join")) = 1
                   /\ CountOut(m, line) <= 1
                   /\ \A k \in EntriesOf(g, p, "join") :
                        /\ groups[g].log[k].msg = line
                        /\ m \in groups[g].log[k].joined =>
                             \/ CountOut(m, line) = 1
                             \/ Pending(m, g, k)
                             \/ InOut(m, ERROR)

\* C7 witness: three connections joined one channel, none departed, and the
\* first of them has the announcements of both peers on its transport.
C7_Witness ==
    /\ \A c \in Conn : ~closed[c] /\ pc[c] = "Joined" /\ chan_name[c] = chanA
    /\ Cardinality(Conn) = 3
    /\ \E m \in Conn : \A p \in Conn \ {m} :
          /\ InOut(m, HasJoinedLine(user_name[p]))
          /\ \E k \in EntriesOf(channel_tx[m], p, "join") :
                m \in groups[channel_tx[m]].log[k].joined

\* C8: every message in the group a handler sends to and listens to was
\* published under the handler's own channel name, and every line a joined
\* handler writes to its transport is ERROR or the message its subscription
\* has just read from that group: a message published on a channel is never
\* written to a connection joined under another name.
C8_NoCrossChannelDelivery ==
    /\ [](\A i \in Conn :
            channel_tx[i] # 0 =>
                \A k \in 1..Len(groups[channel_tx[i]].log) :
                    groups[channel_tx[i]].log[k].chan = chan_name[i])
    /\ [][\A r \in Conn :
            (pc[r] = "Joined" /\ Len(out'[r]) > Len(out[r])) =>
                LET line == out'[r][Len(out'[r])]
                    log == groups[channel_tx[r]].log
                    k == channel_rx'[r].next
                IN \/ line = ERROR
                   \/ /\ k \in 1..Len(log)
                      /\ log[k].msg = line
                      /\ log[k].chan = chan_name[r]]_vars

\* C8 witness: two connections are joined under different channel names, one
\* has published a chat line, and the other has read everything its own group
\* holds, which is its own announcement alone.
C8_Witness ==
    \E i, j \in Conn :
        /\ pc[i] = "Joined" /\ pc[j] = "Joined"
        /\ chan_name[i] # chan_name[j]
        /\ Cardinality(EntriesOf(channel_tx[j], j, "chat")) = 1
        /\ channel_rx[i].next = Len(groups[channel_tx[i]].log)
        /\ out[i] = <<HasJoinedLine(user_name[i])>>

\* The text lines the clients of this run can send once joined
SaidLines == {item.line : item \in {x \in env.says : ~x.err}}

\* `<user>: <line>`
ChatLineText(u, l) == u \o <<":", " ">> \o l

\* The lines on the transport of i that read as chat lines of its own user, in
\* the order written
OwnEchoes(i) ==
    SelectSeq(out[i],
              LAMBDA m : \E l \in SaidLines : m = ChatLineText(user_name[i], l))

\* The chat messages handler i published that its own subscription has read
\* so far, in the order published
OwnConsumed(i) ==
    LET log == groups[channel_tx[i]].log
        read == SelectSeq(SubSeq(log, 1, channel_rx[i].next),
                          LAMBDA e : e.from = i /\ e.kind = "chat")
    IN [k \in 1..Len(read) |-> read[k].msg]

\* The chat messages handler i published that its own subscription has yet
\* to read
OwnUnread(i) ==
    {k \in EntriesOf(channel_tx[i], i, "chat") : k > channel_rx[i].next}

\* How many times m occurs in the sequence s
Occurrences(s, m) == Cardinality({k \in 1..Len(s) : s[k] = m})

\* C9 as claimed: every chat message a joined handler published reads
\* `<user>: <line>`, and those its own subscription has read are on its own
\* transport, each exactly once and in the order sent.
C9_OwnLineEchoedOnce ==
    \A i \in Conn :
        pc[i] = "Joined" =>
            /\ \A k \in EntriesOf(channel_tx[i], i, "chat") :
                 \E l \in SaidLines :
                    groups[channel_tx[i]].log[k].msg = ChatLineText(user_name[i], l)
            /\ OwnEchoes(i) = OwnConsumed(i)

\* C9 as amended: every chat message a joined handler published reads
\* `<user>: <line>`; as long as its subscription never lagged (no ERROR line
\* was written to it), those its own subscription has read are on its own
\* transport, each exactly once and in the order sent; after a lag none is
\* there more often than it was sent; and while the handler stays in the
\* Joined state its own subscription gets to every message it published.
C9_OwnLineEchoedUnlessLagged ==
    /\ [](\A i \in Conn :
            pc[i] = "Joined" =>
                /\ \A k \in EntriesOf(channel_tx[i], i, "chat") :
                     \E l \in SaidLines :
                        groups[channel_tx[i]].log[k].msg =
                            ChatLineText(user_name[i], l)
                /\ ~InOut(i, ERROR) => OwnEchoes(i) = OwnConsumed(i)
                /\ \A l \in SaidLines :
                     Occurrences(OwnEchoes(i), ChatLineText(user_name[i], l))
                         <= Occurrences(OwnConsumed(i), ChatLineText(user_name[i], l)))
    /\ \A i \in Conn :
          (pc[i] = "Joined" /\ OwnUnread(i) # {})
              ~> (pc[i] # "Joined" \/ OwnUnread(i) = {})

\* C9 witness: the only member of a channel sent a line and has it on its own
\* transport, after its own announcement.
C9_Witness ==
    \E i \in Conn :
        /\ pc[i] = "Joined"
        /\ JoinedOn(chan_name[i]) = {i}
        /\ Len(groups[channel_tx[i]].log) = 2
        /\ out[i] = <<HasJoinedLine(user_name[i]),
                      ChatLineText(user_name[i], <<"h", "i">>)>>

\* C10: a step in which a joined connection's transport yields a line changes
\* no handler's position, channel or username and leaves the registry as it
\* is; a text line, one that reads as a join command included, is appended to
\* the sender's own group as `<user>: <line>` and no other group changes; and
\* no channel or roster entry ever comes from a line sent after joining.
C10_LaterLinesArePlainText ==
    /\ [][nread' = nread + 1 =>
            \E i \in Conn :
                /\ pc[i] = "Joined" /\ ~closed[i]
                /\ pc' = pc /\ names' = names /\ channels' = channels
                /\ channel_tx' = channel_tx /\ channel_rx' = channel_rx
                /\ \/ groups' = groups /\ (\E x \in env.says : x.err)
                   \/ \E l \in SaidLines :
                        LET g == channel_tx[i] IN
                        /\ Len(groups'[g].log) = Len(groups[g].log) + 1
                        /\ groups' = [groups EXCEPT ![g].log =
                                        Append(@, groups'[g].log[Len(@) + 1])]
                        /\ groups'[g].log[Len(groups[g].log) + 1].msg =
                               ChatLineText(user_name[i], l)
                        /\ groups'[g].log[Len(groups[g].log) + 1].from = i]_vars
    /\ [](\A c \in DOMAIN channels : \A k \in 1..Len(channels[c].users) :
            \E i \in Conn :
                /\ pc[i] \notin {"Idle", "AwaitJoin"}
                /\ parse_join_command(join_cmd[i]) =
                       [ok |-> TRUE, chan_name |-> c,
                        user_name |-> channels[c].users[k]])

\* C10 witness: a connection joined to channel a sent `JOIN b y`, has it back
\* as a chat line under its own name, and the registry holds channel a alone.
C10_Witness ==
    \E i \in Conn :
        /\ pc[i] = "Joined"
        /\ chan_name[i] = chanA
        /\ InOut(i, ChatLineText(user_name[i], Concat(<<JOIN, chanB, userY>>)))
        /\ DOMAIN channels = {chanA}
        /\ userY \notin Roster(chanA)

\* The number of messages of its group that the subscription of handler i has
\* yet to read
Backlog(i) == Len(groups[channel_tx[i]].log) - channel_rx[i].next

\* C11: a poll of a subscription whose backlog exceeds the capacity writes one
\* ERROR line, leaves the handler in the Joined state and running, and moves
\* the subscription to the oldest retained message, so that the backlog is
\* the capacity and the next poll yields a message; the handler ends in such
\* a step only if the client has closed the transport and the write failed.
\* A poll of a subscription within the capacity writes the next message of
\* the group, never ERROR.
C11_LagReportedOnceAndSurvived ==
    [][\A i \in Conn :
         (pc[i] = "Joined" /\ (channel_rx'[i] # channel_rx[i] \/ out'[i] # out[i])) =>
            IF pc'[i] # "Joined"
            THEN closed[i] /\ result'[i] = "SendMessage" /\ out'[i] = out[i]
            ELSE /\ result'[i] = "Running"
                 /\ groups' = groups /\ channel_tx'[i] = channel_tx[i]
                 /\ IF Backlog(i) > MAX_MESSAGES
                    THEN /\ out'[i] = Append(out[i], ERROR)
                         /\ Len(groups[channel_tx[i]].log) - channel_rx'[i].next
                                = MAX_MESSAGES
                    ELSE /\ out'[i] = Append(out[i],
                                groups[channel_tx[i]].log[channel_rx[i].next + 1].msg)
                         /\ out'[i][Len(out'[i])] # ERROR
                         /\ channel_rx'[i].next = channel_rx[i].next + 1]_vars

\* C11 witness: a joined handler has written ERROR for a lag and, after it, a
\* message of its group.
C11_Witness ==
    \E i \in Conn :
        /\ pc[i] = "Joined" /\ ~closed[i]
        /\ \E k \in 1..(Len(out[i]) - 1) :
              out[i][k] = ERROR /\ out[i][k + 1] # ERROR

\* s is a subsequence of t: the elements of s occur in t in the same order
RECURSIVE IsSubseq(_, _)
IsSubseq(s, t) ==
    IF s = <<>> THEN TRUE
    ELSE IF t = <<>> THEN FALSE
    ELSE IF Head(s) = Head(t) THEN IsSubseq(Tail(s), Tail(t))
    ELSE IsSubseq(s, Tail(t))

\* The lines on the transport of i other than ERROR, in the order written
Forwarded(i) == SelectSeq(out[i], LAMBDA m : m # ERROR)

\* The messages of the group of handler i from position a to position b
LogMsgs(i, a, b) ==
    [k \in 1..(b - a + 1) |-> groups[channel_tx[i]].log[a + k - 1].msg]

\* The position of the only occurrence of m in s
PosIn(s, m) == CHOOSE k \in 1..Len(s) : s[k] = m

\* The text m was published once to the group of handler i, so that a line
\* that reads m stands for that one message
PublishedOnce(i, m) ==
    Cardinality({k \in 1..Len(groups[channel_tx[i]].log) :
                    groups[channel_tx[i]].log[k].msg = m}) = 1

\* C12: for every handler in the Joined state, the messages on its transport
\* are a subsequence of the messages published to its group, up to the one
\* its subscription read last; without an ERROR line there is no gap: they
\* are the run of messages that ends there. So two handlers subscribed to one
\* group have any two messages both of them hold in the same order (compared
\* for the messages whose text was published once, which a line identifies).
C12_ForwardedInPublishOrder ==
    /\ \A i \in Conn :
          pc[i] = "Joined" =>
              /\ IsSubseq(Forwarded(i), LogMsgs(i, 1, channel_rx[i].next))
              /\ ~InOut(i, ERROR) =>
                    /\ Len(out[i]) <= channel_rx[i].next
                    /\ out[i] = LogMsgs(i, channel_rx[i].next - Len(out[i]) + 1,
                                        channel_rx[i].next)
    /\ \A i, j \in Conn :
          (pc[i] = "Joined" /\ pc[j] = "Joined" /\ channel_tx[i] = channel_tx[j]) =>
              \A a, b \in {out[i][k] : k \in 1..Len(out[i])} \ {ERROR} :
                  (/\ CountOut(i, a) = 1 /\ CountOut(i, b) = 1
                   /\ CountOut(j, a) = 1 /\ CountOut(j, b) = 1
                   /\ PublishedOnce(i, a) /\ PublishedOnce(i, b)) =>
                      (PosIn(out[i], a) < PosIn(out[i], b)
                          <=> PosIn(out[j], a) < PosIn(out[j], b))

\* C12 witness: two handlers subscribed to one group, neither of which
\* lagged; the later one holds two messages or more, and they are the last
\* ones the earlier one holds, in the same order.
C12_Witness ==
    \E i, j \in Conn :
        /\ i # j /\ pc[i] = "Joined" /\ pc[j] = "Joined"
        /\ channel_tx[i] = channel_tx[j]
        /\ ~InOut(i, ERROR) /\ ~InOut(j, ERROR)
        /\ Len(out[j]) >= 2 /\ Len(out[i]) > Len(out[j])
        /\ out[j] = SubSeq(out[i], Len(out[i]) - Len(out[j]) + 1, Len(out[i]))

\* The groups the registry stores under some channel name
Stored == {channels[c].tx : c \in DOMAIN channels}

\* C13: a channel name is in the registry if and only if its group has a
\* live subscriber: every group stored in the registry has one subscriber or
\* more, and every group with a subscriber is stored in the registry.
C13_EntryIffLiveSubscriber ==
    \A g \in GroupIds : g \in Stored <=> receiver_count(g) >= 1

\* C14: no channel name has two groups: every connection in the Joined state
\* holds the group that the registry stores under its channel name, and so
\* any two connections joined under one name hold the same group.
C14_OneGroupPerName ==
    /\ \A i \in Conn :
          pc[i] = "Joined" =>
              /\ HasChannel(chan_name[i])
              /\ channels[chan_name[i]].tx = channel_tx[i]
    /\ \A i, j \in Conn :
          (pc[i] = "Joined" /\ pc[j] = "Joined" /\ chan_name[i] = chan_name[j])
              => channel_tx[i] = channel_tx[j]

\* The handlers that a concurrent join has inserted in the roster of group g
\* and that hold its sender, subscribed or about to subscribe
MembersOf(g) ==
    {j \in Conn : channel_tx[j] = g /\ pc[j] \in {"Subscribe", "Announce", "Joined"}}

\* C15: the emptiness check and the removal are one step under the lock: in
\* every step that takes a channel name out of the registry, the group stored
\* under that name at that moment has no subscriber and no member inserted in
\* its roster by a concurrent join.
C15_RemoveIfEmptyIsAtomic ==
    [][\A c \in DOMAIN channels :
          c \notin DOMAIN channels' =>
              /\ receiver_count(channels[c].tx) = 0
              /\ MembersOf(channels[c].tx) = {}]_vars

\* C16: a handler that holds the registry lock does no transport write, no
\* transport read, no publish and no receive: a step taken while handler i
\* holds the lock leaves the transport of i, what i has read and the
\* subscription of i as they are, and adds no message of i to a group.
C16_NoIoUnderLock ==
    [][\A i \in Conn :
          i \in lock =>
              /\ out'[i] = out[i]
              /\ join_cmd'[i] = join_cmd[i] /\ nread' = nread
              /\ channel_rx'[i] = channel_rx[i]
              /\ \A g \in GroupIds :
                    Len(groups'[g].log) > Len(groups[g].log) =>
                        groups'[g].log[Len(groups'[g].log)].from # i]_vars

\* C17: no publish fails. No handler returns BroadcastMessage; a handler that
\* is about to announce its join, is joined, or is about to announce its
\* departure holds a live subscription to the group it publishes to, which so
\* has one subscriber or more; the subscriber count of a group is the number
\* of live subscriptions to it; and every step that adds a message to a group
\* is taken by a handler subscribed to that group.
C17_PublishNeverFails ==
    /\ [](/\ \A i \in Conn :
               /\ result[i] # "BroadcastMessage"
               /\ pc[i] \in {"Announce", "Joined", "Leave"} =>
                     /\ channel_rx[i].live
                     /\ groups[channel_tx[i]].rx_cnt >= 1
          /\ \A g \in GroupIds :
               groups[g].rx_cnt =
                   Cardinality({j \in Conn : channel_rx[j].live /\ channel_tx[j] = g}))
    /\ [][\A g \in GroupIds :
            Len(groups'[g].log) > Len(groups[g].log) =>
                LET p == groups'[g].log[Len(groups'[g].log)].from
                IN /\ groups[g].rx_cnt >= 1
                   /\ channel_rx[p].live /\ channel_tx[p] = g
                   /\ result'[p] = "Running"]_vars

\* C17 witness: a handler has published its join announcement, a chat line
\* and its leave announcement, and returned Ok.
C17_Witness ==
    \E i \in Conn :
        /\ Published(i, "join") = 1
        /\ Published(i, "chat") = 1
        /\ Published(i, "leave") = 1
        /\ pc[i] = "Done" /\ result[i] = "Ok"

\* The usernames of the connections that are joined to channel c or are in
\* the course of joining it or of leaving it
NamesOn(c) ==
    {user_name[j] : j \in {k \in Conn : /\ chan_name[k] = c
                                        /\ pc[k] \in {"Subscribe", "Announce", "Joined",
                                                      "Leave", "DropRx", "CheckEmpty",
                                                      "Remove"}}}

\* C18: the roster of every channel in the registry is the set of usernames
\* of the connections joined to it; in particular the username of a member
\* that has departed (its handler has returned Ok) is in the roster of its
\* channel no longer, unless a connection that is joined, joining or leaving
\* bears the same name.
C18_RosterIsCurrentMembers ==
    \A c \in DOMAIN channels : \A i \in Conn :
        (/\ pc[i] = "Done" /\ result[i] = "Ok"
         /\ chan_name[i] = c
         /\ user_name[i] \notin NamesOn(c))
            => user_name[i] \notin Roster(c)

\* The positions of the space characters of the line
SpacePositions(line) == {k \in 1..Len(line) : line[k] = " "}

\* The n-th cut of the line: its n-th space, the position before the line for
\* n = 0 and the position after it past the last space
Cut(line, n) ==
    IF n = 0 THEN 0
    ELSE IF n > Cardinality(SpacePositions(line)) THEN Len(line) + 1
    ELSE CHOOSE p \in SpacePositions(line) :
            Cardinality({q \in SpacePositions(line) : q < p}) = n - 1

\* The reference's terms: what stands between two cuts that follow each other
RefTerms(line) ==
    [n \in 1..(Cardinality(SpacePositions(line)) + 1) |->
        SubSeq(line, Cut(line, n - 1) + 1, Cut(line, n) - 1)]

\* The length of a term in characters, and in bytes of its UTF-8 encoding
RefChars(t) == Len(t)
RefBytes(t) == Len(t) + Cardinality({k \in 1..Len(t) : t[k] = EAcute})

\* The reference's verdict on the terms it kept
RefVerdict(kept) ==
    IF Len(kept) = 3 /\ kept[1] = <<"J", "O", "I", "N">>
    THEN [ok |-> TRUE, chan_name |-> kept[2], user_name |-> kept[3]]
    ELSE [ok |-> FALSE]

\* The reference with the length of a term counted in characters
RefParseChars(line) ==
    RefVerdict(SelectSeq(RefTerms(line),
        LAMBDA t : RefChars(t) <= 20 /\ \A k \in 1..Len(t) : t[k] \notin {" ", "\t"}))

\* The reference with the length of a term counted in bytes
RefParseBytes(line) ==
    RefVerdict(SelectSeq(RefTerms(line),
        LAMBDA t : RefBytes(t) <= 20 /\ \A k \in 1..Len(t) : t[k] \notin {" ", "\t"}))

\* What the handler of i made of its first line
Parsed(i) ==
    IF result[i] = "InvalidJoin" THEN [ok |-> FALSE]
    ELSE [ok |-> TRUE, chan_name |-> chan_name[i], user_name |-> user_name[i]]

ValidName(n) ==
    /\ n # <<>>
    /\ CharCount(n) <= 20
    /\ \A k \in 1..Len(n) : n[k] \notin {" ", "\t"}

\* C20: every channel name in the registry and every username in a roster is
\* not empty, at most 20 characters long and free of whitespace.
C20_RegistryNamesValid ==
    \A c \in DOMAIN channels :
        /\ ValidName(c)
        /\ \A u \in Roster(c) : ValidName(u)

\* The handler of i has refused the join: no first line, a first line that
\* does not parse, or a username that is in the roster
Rejected(i) == result[i] \in {"NoJoin", "InvalidJoin", "UserAlreadyInChannel"}

\* C21: a step by which a handler refuses a join, or finds the username taken,
\* changes neither the registry nor a group nor what another connection has
\* received; and a handler that has refused a join has published nothing and
\* holds no group.
C21_RejectedJoinChangesNothing ==
    /\ [][\A i \in Conn :
            (pc[i] \in {"AwaitJoin", "Lock", "Conflict"}
                /\ pc'[i] # pc[i] /\ pc'[i] \in {"Conflict", "Done"}) =>
                /\ channels' = channels
                /\ groups' = groups
                /\ \A j \in Conn \ {i} : out'[j] = out[j]]_vars
    /\ [](\A i \in Conn :
            Rejected(i) =>
                /\ NeverPublished(i)
                /\ channel_tx[i] = 0 /\ ~channel_rx[i].live
                /\ out[i] \in {<<>>, <<ERROR>>})

\* C21 witness: a connection was refused a taken username with ERROR, and the
\* member whose name was asked for is still joined, the only name in the
\* roster, and has read all of its group, which is its own announcement.
C21_Witness ==
    \E i, j \in Conn :
        /\ result[i] = "UserAlreadyInChannel" /\ out[i] = <<ERROR>>
        /\ pc[j] = "Joined" /\ chan_name[j] = chan_name[i]
        /\ user_name[j] = user_name[i]
        /\ channels[chan_name[j]].users = <<user_name[j]>>
        /\ channel_rx[j].next = Len(groups[channel_tx[j]].log)
        /\ out[j] = <<HasJoinedLine(user_name[j])>>

\* Every connection of the run has been accepted and has closed its transport
AllClosed == accepted = env.conns /\ \A i \in 1..env.conns : closed[i]

\* C22: once every connection has closed and none is to come, every handler
\* returns and the registry comes to hold no channel.
C22_EventuallyReclaimed ==
    AllClosed ~> (/\ \A i \in 1..env.conns : pc[i] = "Done"
                  /\ DOMAIN channels = {})

\* The publish handles of group g that are alive: one per handler that holds
\* a clone, and the one of the registry entry that stores the group
Senders(g) ==
    Cardinality({j \in Conn : channel_tx[j] = g})
        + (IF g \in Stored THEN 1 ELSE 0)

\* C23: the subscription of a handler never reports that its group is closed.
\* No handler ends in the unreachable branch; the publish handles of a group
\* are those of the handlers that hold a clone and of the registry entry; a
\* handler holds its clone from its insertion to its return, so its group has
\* a live publish handle whenever it polls its subscription, whether or not
\* the registry still stores the group.
C23_GroupNeverClosed ==
    /\ [](/\ \A i \in Conn : result[i] # "Panic"
          /\ \A g \in GroupIds : groups[g].tx_cnt = Senders(g)
          /\ \A i \in Conn :
               pc[i] \in {"Subscribe", "Announce", "Joined", "Leave", "DropRx",
                          "CheckEmpty", "Remove"} =>
                   /\ channel_tx[i] \in GroupIds
                   /\ groups[channel_tx[i]].tx_cnt >= 1)
    /\ [][\A i \in Conn :
            (pc[i] = "Joined" /\ (channel_rx'[i] # channel_rx[i] \/ out'[i] # out[i]))
                => /\ groups[channel_tx[i]].tx_cnt >= 1
                   /\ Backlog(i) >= 1]_vars

\* C23 witness: a handler is joined to a group that the registry stores no
\* longer, its own clone being the only publish handle left, and it has
\* written to its client all that the group holds.
C23_Witness ==
    \E i \in Conn :
        /\ pc[i] = "Joined"
        /\ channel_tx[i] \notin Stored
        /\ groups[channel_tx[i]].tx_cnt = 1
        /\ Backlog(i) = 0 /\ Len(out[i]) >= 1

=============================================================================
